---- MODULE Spec2Model ----
(***************************************************************************)
(* detone: the iterator adapter DecomposeVietnamese of src/lib.rs.  It     *)
(* reads an upstream iterator over char and yields the same characters     *)
(* with Vietnamese tone marks detached, driven by the three packed tables  *)
(* of TONE_DATA.  A char is modelled by its code point, Option<char>::None *)
(* by None.                                                                *)
(***************************************************************************)
EXTENDS Integers, Sequences, FiniteSets, TLC

VARIABLES
    delegate,      \* DecomposeVietnamese.delegate: the characters upstream has still to yield
    pending,       \* DecomposeVietnamese.pending: the buffered tone, '\u{0}' when empty
    orthographic,  \* DecomposeVietnamese.orthographic
    input,         \* the characters the upstream iterator was constructed over
    results        \* the values next() has returned so far, oldest first

vars == << delegate, pending, orthographic, input, results >>

----------------------------------------------------------------------------
(* Bounds of the model. *)

\* longest upstream sequence drawn from Alphabet
MaxLen ==
    3

\* every code point 0 .. MaxCodePoint is tried as a one-character upstream
MaxCodePoint ==
    7940

\* next() is called until it has returned None this many times
MaxNones ==
    2

----------------------------------------------------------------------------
(* TONE_DATA *)

windows_1258_key ==
    << \HC0, \HC1, \HC8, \HC9, \HCD, \HD3, \HD9, \HDA,
       \HE0, \HE1, \HE8, \HE9, \HED, \HF3, \HF9, \HFA >>

windows_1258_value ==
    << \H41, \HC1, \H45, \HC5, \HC9, \HCF, \H55, \HD5,
       \H61, \HE1, \H65, \HE5, \HE9, \HEF, \H75, \HF5 >>

middle_key ==
    << \H00, \H09, \H0F, \H12, \H1A, \H20, \H29,
       \H2F, \H32, \H3A, \H65, \H66, \HA5, \HA6 >>

middle_value ==
    << \HC1, \H49, \H4F, \HCF, \H59, \HE1, \H69,
       \H6F, \HEF, \H79, \HC9, \HE9, \HD5, \HF5 >>

extensions_for_vietnamese ==
    << \H8C41, \H8C61, \H2441, \H2461, \H04C2, \H04E2,
       \H00C2, \H00E2, \H24C2, \H24E2, \H0CC2, \H0CE2,
       \H8CC2, \H8CE2, \H0502, \H0503, \H0102, \H0103,
       \H2502, \H2503, \H0D02, \H0D03, \H8D02, \H8D03,
       \H8C45, \H8C65, \H2445, \H2465, \H0C45, \H0C65,
       \H04CA, \H04EA, \H00CA, \H00EA, \H24CA, \H24EA,
       \H0CCA, \H0CEA, \H8CCA, \H8CEA, \H2449, \H2469,
       \H8C49, \H8C69, \H8C4F, \H8C6F, \H244F, \H246F,
       \H04D4, \H04F4, \H00D4, \H00F4, \H24D4, \H24F4,
       \H0CD4, \H0CF4, \H8CD4, \H8CF4, \H05A0, \H05A1,
       \H01A0, \H01A1, \H25A0, \H25A1, \H0DA0, \H0DA1,
       \H8DA0, \H8DA1, \H8C55, \H8C75, \H2455, \H2475,
       \H05AF, \H05B0, \H01AF, \H01B0, \H25AF, \H25B0,
       \H0DAF, \H0DB0, \H8DAF, \H8DB0, \H0059, \H0079,
       \H8C59, \H8C79, \H2459, \H2479, \H0C59, \H0C79 >>

----------------------------------------------------------------------------
(* Machine arithmetic *)

\* Option<char>::None
None ==
    -1

\* usize::MAX.  usize is 32 or 64 bits wide on the targets of the crate; TLC
\* integers are 32-bit signed, so the model keeps the 31 low bits.  The only
\* wrapped value the code computes is s - 0x1EA0 for s < 0x1EA0, which lies
\* within 0x1EA0 of usize::MAX at every width.
UsizeMax ==
    2147483647

\* usize::wrapping_sub
wrapping_sub(a, b) ==
    IF a >= b THEN a - b ELSE (UsizeMax - (b - a)) + 1

RECURSIVE BitAnd(_, _)
\* a & b on unsigned integers
BitAnd(a, b) ==
    IF a = 0 \/ b = 0
    THEN 0
    ELSE (a % 2) * (b % 2) + 2 * BitAnd(a \div 2, b \div 2)

\* a >> n on unsigned integers
Shr(a, n) ==
    a \div (2 ^ n)

\* x as u8
AsU8(x) ==
    x % 256

\* a + b in u16
AddU16(a, b) ==
    (a + b) % 65536

\* the Unicode scalar values: what a char can hold
IsScalar(u) ==
    /\ u >= 0
    /\ u <= \H10FFFF
    /\ ~(u >= \HD800 /\ u <= \HDFFF)

\* expand: char::from_u32_unchecked(u32::from(u)).  For a scalar value it is
\* that char.  For a surrogate the call is undefined behaviour: the build may
\* produce the raw value or any char.
expand(u) ==
    IF IsScalar(u) THEN {u} ELSE {u, 0, \HFFFD}

RECURSIVE bsearch(_, _, _, _)
\* the bisection of <[u8]>::binary_search over keys[lo .. hi), 0-based
bsearch(keys, key, lo, hi) ==
    IF lo >= hi
    THEN None
    ELSE LET mid == lo + ((hi - lo) \div 2)
         IN  IF keys[mid + 1] = key
             THEN mid
             ELSE IF keys[mid + 1] < key
                  THEN bsearch(keys, key, mid + 1, hi)
                  ELSE bsearch(keys, key, lo, mid)

\* slice.binary_search(&key): Ok(i) is i, Err(_) is None
binary_search(keys, key) ==
    bsearch(keys, key, 0, Len(keys))

----------------------------------------------------------------------------
(* The three lookups of next().  Each yields the set of (base, tone) pairs  *)
(* the build can produce for c: empty when c is no entry of the table, one  *)
(* pair when it is.                                                         *)

\* MiddleTone without the special case of Y and y
MiddleTone_NoYRule(val) ==
    IF Shr(val, 7) = 0 THEN \H0300 ELSE \H0303

\* MiddleTone that ignores the upper bit of the value
MiddleTone_NoTilde(val) ==
    IF BitAnd(val, \H5F) = \H59 THEN \H0301 ELSE \H0300

\* the tone of a middle_value entry
MiddleTone(val) ==
    IF BitAnd(val, \H5F) = \H59
    THEN \H0301
    ELSE IF Shr(val, 7) = 0
         THEN \H0300
         ELSE \H0303

\* LookupExtensions with a base mask of 8 bits instead of 10
LookupExtensions_Mask8(c) ==
    LET minus_offset == wrapping_sub(c, \H1EA0)
    IN  IF minus_offset < Len(extensions_for_vietnamese)
        THEN LET val == extensions_for_vietnamese[minus_offset + 1]
             IN  { << base, tone >> :
                       base \in expand(BitAnd(val, \HFF)),
                       tone \in expand(AddU16(Shr(val, 10), \H0300)) }
        ELSE {}

\* LookupExtensions with the tone shifted by 9 bits instead of 10
LookupExtensions_Shift9(c) ==
    LET minus_offset == wrapping_sub(c, \H1EA0)
    IN  IF minus_offset < Len(extensions_for_vietnamese)
        THEN LET val == extensions_for_vietnamese[minus_offset + 1]
             IN  { << base, tone >> :
                       base \in expand(BitAnd(val, \H3FF)),
                       tone \in expand(AddU16(Shr(val, 9), \H0300)) }
        ELSE {}

\* the extensions_for_vietnamese branch
LookupExtensions(c) ==
    LET minus_offset == wrapping_sub(c, \H1EA0)
    IN  IF minus_offset < Len(extensions_for_vietnamese)
        THEN LET val == extensions_for_vietnamese[minus_offset + 1]
             IN  { << base, tone >> :
                       base \in expand(BitAnd(val, \H3FF)),
                       tone \in expand(AddU16(Shr(val, 10), \H0300)) }
        ELSE {}

\* LookupMiddle without the range test in front of the truncation to u8
LookupMiddle_NoRange(c) ==
    LET key == AsU8(c - \HC3)
        i   == binary_search(middle_key, key)
    IN  IF i # None
        THEN LET val == middle_value[i + 1]
             IN  { << BitAnd(val, \H7F), MiddleTone(val) >> }
        ELSE {}

\* the middle_key / middle_value branch
LookupMiddle(c) ==
    IF c >= \HC3 /\ c <= \H0169
    THEN LET key == AsU8(c - \HC3)
             i   == binary_search(middle_key, key)
         IN  IF i # None
             THEN LET val == middle_value[i + 1]
                  IN  { << BitAnd(val, \H7F), MiddleTone(val) >> }
             ELSE {}
    ELSE {}

\* LookupWindows1258 that does not test the orthographic flag
LookupWindows1258_Ungated(c, orth) ==
    IF c >= \HC0 /\ c <= \HFA
    THEN LET i == binary_search(windows_1258_key, AsU8(c))
         IN  IF i # None
             THEN LET val == windows_1258_value[i + 1]
                  IN  { << BitAnd(val, \H7F), tone >> :
                            tone \in expand(AddU16(Shr(val, 7), \H0300)) }
             ELSE {}
    ELSE {}

\* the windows_1258_key / windows_1258_value branch
LookupWindows1258(c, orth) ==
    IF orth /\ c >= \HC0 /\ c <= \HFA
    THEN LET i == binary_search(windows_1258_key, AsU8(c))
         IN  IF i # None
             THEN LET val == windows_1258_value[i + 1]
                  IN  { << BitAnd(val, \H7F), tone >> :
                            tone \in expand(AddU16(Shr(val, 7), \H0300)) }
             ELSE {}
    ELSE {}

\* Decompose with the orthographic test on the middle branch as well
Decompose_MiddleGated(c, orth) ==
    IF LookupExtensions(c) # {}
    THEN LookupExtensions(c)
    ELSE IF ~orth /\ LookupMiddle(c) # {}
         THEN LookupMiddle(c)
         ELSE LookupWindows1258(c, orth)

\* the branches in the order next() tries them; {} when c is returned as it is
Decompose(c, orth) ==
    IF LookupExtensions(c) # {}
    THEN LookupExtensions(c)
    ELSE IF LookupMiddle(c) # {}
         THEN LookupMiddle(c)
         ELSE LookupWindows1258(c, orth)

----------------------------------------------------------------------------
(* The upstream iterators the model runs the adapter over. *)

\* characters of every kind: NUL, a base letter, two orphan tone marks, one
\* entry of each table, and the code point after the extension table
Alphabet ==
    { \H0000, \H0041, \H0300, \H0323, \H00C0, \H00C3, \H1EA0, \H1EFA }

\* characters beyond MaxCodePoint: the edges of the surrogate gap, an
\* astral character and char::MAX
HighChars ==
    { \HD7FF, \HE000, \H1F600, \H10FFFF }

Chars ==
    { c \in 0 .. MaxCodePoint : IsScalar(c) } \cup HighChars \cup Alphabet

Inputs ==
    UNION { [1 .. n -> Alphabet] : n \in 0 .. MaxLen } \cup { << c >> : c \in Chars }

\* the number of times next() has returned None
NoneCount(rs) ==
    Cardinality({ i \in DOMAIN rs : rs[i] = None })

----------------------------------------------------------------------------
(* decompose_vietnamese_tones(orthographic) over an upstream iterator *)

Init ==
    /\ input \in Inputs
    /\ delegate = input
    /\ pending = 0
    /\ orthographic \in BOOLEAN
    /\ results = << >>

(* next(), one action per path through it *)

\* NextPending that also polls upstream
NextPending_Polls ==
    /\ pending # 0
    /\ results' = Append(results, pending)
    /\ pending' = 0
    /\ delegate' = IF delegate = << >> THEN delegate ELSE Tail(delegate)
    /\ UNCHANGED << orthographic, input >>

\* a tone is pending: return it and empty the buffer
NextPending ==
    /\ pending # 0
    /\ results' = Append(results, pending)
    /\ pending' = 0
    /\ UNCHANGED << delegate, orthographic, input >>

\* NextDecomposed that does not store the tone
NextDecomposed_DropsTone ==
    /\ pending = 0
    /\ delegate # << >>
    /\ \E p \in Decompose(Head(delegate), orthographic) :
           results' = Append(results, p[1])
    /\ delegate' = Tail(delegate)
    /\ UNCHANGED << pending, orthographic, input >>

\* upstream yields a character of a table: return its base, keep its tone
NextDecomposed ==
    /\ pending = 0
    /\ delegate # << >>
    /\ \E p \in Decompose(Head(delegate), orthographic) :
           /\ pending' = p[2]
           /\ results' = Append(results, p[1])
    /\ delegate' = Tail(delegate)
    /\ UNCHANGED << orthographic, input >>

\* upstream yields any other character: return it
NextUnchanged ==
    /\ pending = 0
    /\ delegate # << >>
    /\ Decompose(Head(delegate), orthographic) = {}
    /\ results' = Append(results, Head(delegate))
    /\ delegate' = Tail(delegate)
    /\ UNCHANGED << pending, orthographic, input >>

\* NextNone that starts over on the upstream characters
NextNone_Restarts ==
    /\ pending = 0
    /\ delegate = << >>
    /\ NoneCount(results) < MaxNones
    /\ results' = Append(results, None)
    /\ delegate' = input
    /\ UNCHANGED << pending, orthographic, input >>

\* upstream is exhausted: return None
NextNone ==
    /\ pending = 0
    /\ delegate = << >>
    /\ NoneCount(results) < MaxNones
    /\ results' = Append(results, None)
    /\ UNCHANGED << delegate, pending, orthographic, input >>

Next ==
    \/ NextPending
    \/ NextDecomposed
    \/ NextUnchanged
    \/ NextNone

Spec ==
    Init /\ [][Next]_vars

\* the caller keeps calling next()
FairSpec ==
    Spec /\ WF_vars(Next)

----------------------------------------------------------------------------
(* tests::test_tones: the data the test runs the adapter over *)

bases ==
    << \H0041, \H0061, \H0102, \H0103, \H00C2, \H00E2, \H0045, \H0065, \H00CA, \H00EA, \H0049, \H0069, \H004F, \H006F, \H00D4, \H00F4, \H01A0, \H01A1, \H0055, \H0075, \H01AF, \H01B0, \H0059, \H0079 >>

tones ==
    << \H0300, \H0309, \H0303, \H0301, \H0323 >>

\* nfc[i][j] is paired.nfc().next().unwrap() for bases[i] followed by
\* tones[j]: the canonical composition of the two
nfc ==
    << << \H00C0, \H1EA2, \H00C3, \H00C1, \H1EA0 >>,
       << \H00E0, \H1EA3, \H00E3, \H00E1, \H1EA1 >>,
       << \H1EB0, \H1EB2, \H1EB4, \H1EAE, \H1EB6 >>,
       << \H1EB1, \H1EB3, \H1EB5, \H1EAF, \H1EB7 >>,
       << \H1EA6, \H1EA8, \H1EAA, \H1EA4, \H1EAC >>,
       << \H1EA7, \H1EA9, \H1EAB, \H1EA5, \H1EAD >>,
       << \H00C8, \H1EBA, \H1EBC, \H00C9, \H1EB8 >>,
       << \H00E8, \H1EBB, \H1EBD, \H00E9, \H1EB9 >>,
       << \H1EC0, \H1EC2, \H1EC4, \H1EBE, \H1EC6 >>,
       << \H1EC1, \H1EC3, \H1EC5, \H1EBF, \H1EC7 >>,
       << \H00CC, \H1EC8, \H0128, \H00CD, \H1ECA >>,
       << \H00EC, \H1EC9, \H0129, \H00ED, \H1ECB >>,
       << \H00D2, \H1ECE, \H00D5, \H00D3, \H1ECC >>,
       << \H00F2, \H1ECF, \H00F5, \H00F3, \H1ECD >>,
       << \H1ED2, \H1ED4, \H1ED6, \H1ED0, \H1ED8 >>,
       << \H1ED3, \H1ED5, \H1ED7, \H1ED1, \H1ED9 >>,
       << \H1EDC, \H1EDE, \H1EE0, \H1EDA, \H1EE2 >>,
       << \H1EDD, \H1EDF, \H1EE1, \H1EDB, \H1EE3 >>,
       << \H00D9, \H1EE6, \H0168, \H00DA, \H1EE4 >>,
       << \H00F9, \H1EE7, \H0169, \H00FA, \H1EE5 >>,
       << \H1EEA, \H1EEC, \H1EEE, \H1EE8, \H1EF0 >>,
       << \H1EEB, \H1EED, \H1EEF, \H1EE9, \H1EF1 >>,
       << \H1EF2, \H1EF6, \H1EF8, \H00DD, \H1EF4 >>,
       << \H1EF3, \H1EF7, \H1EF9, \H00FD, \H1EF5 >> >>

----------------------------------------------------------------------------
(* Vocabulary of the properties *)

\* the characters next() has returned
Output ==
    SelectSeq(results, LAMBDA r : r # None)

\* end-of-sequence, as often as the model lets next() return it
Nones ==
    [k \in 1 .. MaxNones |-> None]

IsPrefix(s, t) ==
    /\ Len(s) <= Len(t)
    /\ \A k \in 1 .. Len(s) : s[k] = t[k]

\* the five combining marks
ToneMarks ==
    { \H0300, \H0301, \H0303, \H0309, \H0323 }

\* the code points each table has an entry for
ExtensionChars ==
    { \H1EA0 + k : k \in 0 .. Len(extensions_for_vietnamese) - 1 }

MiddleChars ==
    { \HC3 + middle_key[k] : k \in DOMAIN middle_key }

Windows1258Chars ==
    { windows_1258_key[k] : k \in DOMAIN windows_1258_key }

TableChars ==
    ExtensionChars \cup MiddleChars \cup Windows1258Chars

\* the 16 characters À Á È É Í Ó Ù Ú à á è é í ó ù ú
Representable ==
    { \HC0, \HC1, \HC8, \HC9, \HCD, \HD3, \HD9, \HDA,
      \HE0, \HE1, \HE8, \HE9, \HED, \HF3, \HF9, \HFA }

\* the (base, tone) pairs whose canonical composition is c
NfcPairs(c) ==
    { << bases[ij[1]], tones[ij[2]] >> :
          ij \in { x \in (DOMAIN bases) \X (DOMAIN tones) : nfc[x[1]][x[2]] = c } }

\* the characters test_tones composes
NfcChars ==
    { nfc[i][j] : i \in DOMAIN bases, j \in DOMAIN tones }

\* whether the tables decompose c under the flag
Decomposes(c, orth) ==
    \/ c \in ExtensionChars
    \/ c \in MiddleChars
    \/ orth /\ c \in Windows1258Chars

\* the character upstream yielded last
Consumed ==
    input[Len(input) - Len(delegate)]

----------------------------------------------------------------------------
(* C1: with orthographic = true, over the single precomposed character of  *)
(* each of the 24 bases with each of the 5 tones, next() returns the base, *)
(* then the tone, then None.                                               *)
C1_TestTones ==
    \A i \in DOMAIN bases, j \in DOMAIN tones :
        (orthographic /\ input = << nfc[i][j] >>)
            => IsPrefix(results, << bases[i], tones[j] >> \o Nones)

C1_Witness ==
    /\ orthographic
    /\ input = << \H00DD >>
    /\ results = << \H0059, \H0301, None >>

(* C2: the orthographic flag gates only the 16 representable characters:   *)
(* with the flag false each is returned as it is and no tone is pending,   *)
(* with the flag true each is returned as its ASCII base and then U+0300   *)
(* or U+0301; every other composed character is decomposed with the flag   *)
(* false as well, and no other character is treated differently by the two *)
(* values of the flag.                                                     *)
C2_FlagGatesRepresentable ==
    Len(input) >= 1 =>
        LET c == input[1]
        IN  /\ (c \in Representable /\ ~orthographic /\ Len(results) >= 1)
                => /\ results[1] = c
                   /\ Len(results) = 1 => pending = 0
                   /\ (Len(input) = 1 /\ Len(results) >= 2) => results[2] = None
            /\ (c \in Representable /\ orthographic /\ Len(results) >= 2)
                => /\ results[1] \in (65 .. 90) \cup (97 .. 122)
                   /\ results[2] \in { \H0300, \H0301 }
                   /\ << results[1], results[2] >> \in NfcPairs(c)
            /\ (c \in NfcChars \ Representable /\ ~orthographic /\ Len(results) >= 2)
                => << results[1], results[2] >> \in NfcPairs(c)
            /\ (c = \H00FD /\ Len(results) >= 2)
                => << results[1], results[2] >> = << \H0079, \H0301 >>
            /\ (c = \H1EA5 /\ Len(results) >= 2)
                => << results[1], results[2] >> = << \H00E2, \H0301 >>
            /\ c \notin Representable => Decompose(c, TRUE) = Decompose(c, FALSE)

C2_Witness ==
    /\ ~orthographic
    /\ input = << \H00C1 >>
    /\ results = << \H00C1, None >>

C4_PassThrough ==
    (\A k \in DOMAIN input : input[k] \notin TableChars)
        => /\ pending = 0
           /\ IsPrefix(results, input \o Nones)

C4_Witness ==
    /\ orthographic
    /\ input = << \H0000, \H0300, \H1EFA >>
    /\ results = << \H0000, \H0300, \H1EFA, None >>

(* C5: a character that the adapter decomposes with orthographic = false   *)
(* is decomposed into the same (base, tone) with orthographic = true; the  *)
(* characters decomposed only with the flag true are the 16 representable  *)
(* ones.                                                                   *)
C5_Monotonic ==
    Len(input) >= 1 =>
        LET c == input[1]
        IN  /\ Decompose(c, FALSE) # {}
                => /\ Decompose(c, TRUE) = Decompose(c, FALSE)
                   /\ (orthographic /\ Len(results) >= 2)
                          => << results[1], results[2] >> \in Decompose(c, FALSE)
            /\ (Decompose(c, FALSE) = {} /\ Decompose(c, TRUE) # {})
                   <=> c \in Representable

C5_Witness ==
    /\ orthographic
    /\ input = << \H00C3 >>
    /\ results = << \H0041, \H0303 >>

(* The composed character the tables map a (base, tone) pair to, and the   *)
(* collapse of an output: every adjacent pair the tables map is replaced,  *)
(* left to right, by its composed character.                               *)
PairsOf ==
    [c \in TableChars |-> Decompose(c, TRUE)]

Composed(b, t) ==
    { c \in TableChars : << b, t >> \in PairsOf[c] }

RECURSIVE Collapse(_)
Collapse(s) ==
    IF s = << >>
    THEN << >>
    ELSE IF Len(s) >= 2 /\ Composed(s[1], s[2]) # {}
         THEN << CHOOSE c \in Composed(s[1], s[2]) : TRUE >>
                  \o Collapse(SubSeq(s, 3, Len(s)))
         ELSE << s[1] >> \o Collapse(Tail(s))

\* no character of the input is directly followed by a tone mark that the
\* tables compose with it
NoComposablePair(s) ==
    \A k \in 1 .. Len(s) - 1 : Composed(s[k], s[k + 1]) = {}

DecomposedCount ==
    Cardinality({ k \in DOMAIN input : Decomposes(input[k], orthographic) })

\* exactly the first n + d results are characters
C7_LengthInv ==
    /\ Len(Output) <= Len(input) + DecomposedCount
    /\ NoneCount(results) >= 1
           => /\ Len(Output) = Len(input) + DecomposedCount
              /\ \A k \in DOMAIN results :
                     results[k] = None <=> k > Len(input) + DecomposedCount

(* C7: over an upstream of n characters of which d are decomposed under    *)
(* the flag, next() returns n + d characters and then None, and it does    *)
(* reach None.                                                             *)
C7_Length ==
    /\ []C7_LengthInv
    /\ <>(NoneCount(results) >= 1)

C7_Witness ==
    /\ ~orthographic
    /\ input = << \H00C0, \H00C3, \H1EA0 >>
    /\ results = << \H00C0, \H0041, \H0303, \H0041, \H0323, None >>

(* C8: once upstream is exhausted and no tone is pending, every further    *)
(* call of next() returns None, and the pending buffer stays empty.        *)
C8_ExhaustionStable ==
    [][(delegate = << >> /\ pending = 0)
           => /\ results' = Append(results, None)
              /\ pending' = 0
              /\ delegate' = << >>]_vars

C8_Witness ==
    /\ input = << \H1EA0 >>
    /\ NoneCount(results) >= 2

\* a pending tone is the tone of the base returned last
C9_PendingInv ==
    pending # 0
        => /\ Len(results) >= 1
           /\ Len(delegate) < Len(input)
           /\ << results[Len(results)], pending >> \in Decompose(Consumed, orthographic)

(* C9: when a tone is pending, next() returns it, empties the buffer and   *)
(* does not poll upstream; so a tone is the output right after its base,   *)
(* before any later character is consumed, and no two calls in a row find  *)
(* a tone pending.                                                         *)
C9_PendingFirst ==
    /\ []C9_PendingInv
    /\ [][pending # 0
              => /\ results' = Append(results, pending)
                 /\ pending' = 0
                 /\ delegate' = delegate]_vars

C9_Witness ==
    /\ input = << \H1EA0, \H00C3 >>
    /\ delegate = << \H00C3 >>
    /\ results = << \H0041, \H0323 >>
    /\ pending = 0

\* every table entry decodes to a scalar base and one of the five marks
TableDecodes ==
    \A c \in TableChars :
        /\ Decompose(c, TRUE) # {}
        /\ \A p \in Decompose(c, TRUE) \cup Decompose(c, FALSE) :
               /\ IsScalar(p[1])
               /\ p[2] \in ToneMarks

(* C10: the pending buffer is always U+0000 or one of the five combining   *)
(* marks, and every entry of the tables decodes to a base and a tone that  *)
(* are Unicode scalar values, the tone one of the five marks.              *)
C10_PendingIsTone ==
    /\ pending \in {0} \cup ToneMarks
    /\ TableDecodes

C10_Witness ==
    /\ pending = \H0309
    /\ input = << \H1EF6 >>
    /\ results = << \H0059 >>

====
